---- MODULE Spec2Model ----
(***************************************************************************)
(* Model of the PDF -> PPTX converter (src/converter/pdf_to_pptx.py):      *)
(* main, the AI driver create_pptx_from_pdf_with_ai, the extractor         *)
(* analyze_slide_with_gemini, the reconstructor create_slide_from_ai_data, *)
(* hex_to_rgb and the image-only path create_pptx_from_pdf_images.         *)
(*                                                                         *)
(* Python strings whose characters matter (text, colours) are sequences of *)
(* one-character cells; JSON values are tagged records [t |-> tag, ...].   *)
(* Lengths are EMU (914400 per inch), as python-pptx's Inches() gives.     *)
(***************************************************************************)
EXTENDS Integers, Sequences, FiniteSets, TLC

VARIABLES
    pc,               \* position of main / the driver
    GEMINI_AVAILABLE, \* the google-genai import succeeded
    GEMINI_API_KEY,   \* TRUE iff the key is a non-empty string
    input_exists,     \* INPUT_PDF.exists()
    total_pages,      \* len(doc)
    wide,             \* first page's aspect ratio > 1.5
    page_num,         \* loop variable of the driver (0-based)
    slides,           \* prs.slides, in order
    failed_slides,    \* the driver's failure list
    paced,            \* the driver's time.sleep calls: page (1-based) and seconds
    extract_calls,    \* invocations of analyze_slide_with_gemini
    image_runs,       \* invocations of create_pptx_from_pdf_images
    model_idx,        \* extractor: index into models (1-based)
    attempt,          \* extractor: loop variable of range(max_retries)
    log,              \* extractor: the API calls of the current invocation
    slide_data,       \* extractor: the value returned to the driver
    hex_in,           \* argument of hex_to_rgb (pure-function specification)
    hex_out           \* its result

vars == <<pc, GEMINI_AVAILABLE, GEMINI_API_KEY, input_exists, total_pages, wide,
          page_num, slides, failed_slides, paced, extract_calls, image_runs,
          model_idx, attempt, log, slide_data, hex_in, hex_out>>

-----------------------------------------------------------------------------
(* Bounds of the model *)

MaxPages == 3
MaxHashes == 2
MaxBodyLen == 6
MaxTextLen == 3

-----------------------------------------------------------------------------
(* Program constants *)

max_retries == 3
NumModels == 3
BackoffUnit == 15
PacingDelay == 10
HexLen == 6
SLIDE_WIDTH_WIDE == 12191695
SLIDE_WIDTH_STD == 9144000
SLIDE_HEIGHT == 6858000
MIN_WIDTH_TEST == 914400
MIN_WIDTH_SET == 1828800
MIN_HEIGHT_TEST == 365760
MIN_HEIGHT_SET == 548640
EDGE_MARGIN == 182880

-----------------------------------------------------------------------------
(* Python string helpers over sequences of one-character cells *)

\* the bullet glyph U+2022, one cell
BULLET == "u2022"
NL == "\n"
Whitespace == {" ", NL}

RECURSIVE LStripSet(_, _)
LStripSet(s, chars) ==
    IF s # <<>> /\ Head(s) \in chars THEN LStripSet(Tail(s), chars) ELSE s

RECURSIVE RStripSet(_, _)
RStripSet(s, chars) ==
    IF s # <<>> /\ s[Len(s)] \in chars
    THEN RStripSet(SubSeq(s, 1, Len(s) - 1), chars)
    ELSE s

\* str.strip(): whitespace off both ends
Strip(s) == RStripSet(LStripSet(s, Whitespace), Whitespace)

\* str.split('\n')
RECURSIVE SplitNL(_, _)
SplitNL(s, cur) ==
    IF s = <<>> THEN <<cur>>
    ELSE IF Head(s) = NL THEN <<cur>> \o SplitNL(Tail(s), <<>>)
    ELSE SplitNL(Tail(s), Append(cur, Head(s)))

-----------------------------------------------------------------------------
(* JSON values as json.loads returns them *)

J_absent == [t |-> "absent"]
J_null == [t |-> "null"]
J_num(n) == [t |-> "num", n |-> n]
J_str(s) == [t |-> "str", s |-> s]
J_word(w) == [t |-> "word", w |-> w]
J_bool(b) == [t |-> "bool", b |-> b]
J_list(items) == [t |-> "list", items |-> items]

\* dict.get(key, default): an absent key yields the default
Get(v, default) == IF v.t = "absent" THEN default ELSE v

\* Python truthiness of a JSON value
Truthy(v) ==
    CASE v.t = "absent" -> FALSE
      [] v.t = "null" -> FALSE
      [] v.t = "num" -> v.n # 0
      [] v.t = "bool" -> v.b
      [] v.t = "str" -> v.s # <<>>
      [] v.t = "list" -> v.items # <<>>
      [] OTHER -> TRUE

-----------------------------------------------------------------------------
(* hex_to_rgb *)

\* the digits int() knows, by value: 0-9, a-f (upper case is the same value)
LowerDigits == <<"0", "1", "2", "3", "4", "5", "6", "7", "8", "9",
                 "a", "b", "c", "d", "e", "f">>
UpperDigits == <<"0", "1", "2", "3", "4", "5", "6", "7", "8", "9",
                 "A", "B", "C", "D", "E", "F">>
DigitsOf(base) ==
    {LowerDigits[i] : i \in 1..base} \cup {UpperDigits[i] : i \in 1..base}
DigitValue(c) ==
    (CHOOSE i \in 1..16 : LowerDigits[i] = c \/ UpperDigits[i] = c) - 1

RECURSIVE DigitsValue(_, _, _)
DigitsValue(s, base, acc) ==
    IF s = <<>> THEN acc
    ELSE IF Head(s) = "_" THEN DigitsValue(Tail(s), base, acc)
    ELSE DigitsValue(Tail(s), base, base * acc + DigitValue(Head(s)))

\* the digit part int() accepts: digits of the base, single underscores
\* only between digits
DigitsOk(s, base) ==
    /\ s # <<>>
    /\ \A i \in 1..Len(s) : s[i] \in DigitsOf(base) \cup {"_"}
    /\ s[1] # "_"
    /\ s[Len(s)] # "_"
    /\ \A i \in 1..(Len(s) - 1) : ~(s[i] = "_" /\ s[i + 1] = "_")

\* int(s, base): surrounding whitespace stripped, an optional sign, an
\* optional 0x prefix in base 16, then digits; [ok |-> FALSE] stands for
\* ValueError
IsSigned(t) == t # <<>> /\ t[1] \in {"+", "-"}
Unsigned(t) == IF IsSigned(t) THEN Tail(t) ELSE t
HasPrefix(u, base) ==
    base = 16 /\ Len(u) >= 2 /\ u[1] = "0" /\ u[2] \in {"x", "X"}
\* one underscore may follow the 0x prefix
AfterPrefix(r) == IF r # <<>> /\ r[1] = "_" THEN Tail(r) ELSE r
DigitPart(u, base) ==
    IF HasPrefix(u, base) THEN AfterPrefix(SubSeq(u, 3, Len(u))) ELSE u
PyIntDigits(body, negative, base) ==
    IF DigitsOk(body, base)
    THEN [ok |-> TRUE,
          v |-> IF negative THEN 0 - DigitsValue(body, base, 0)
                ELSE DigitsValue(body, base, 0)]
    ELSE [ok |-> FALSE, v |-> 0]
PyIntStripped(t, base) ==
    PyIntDigits(DigitPart(Unsigned(t), base), t # <<>> /\ t[1] = "-", base)
PyInt(s, base) == PyIntStripped(Strip(s), base)

BLACK == <<0, 0, 0>>

\* line 189 under its try: the three components, black on a ValueError
Components(r, g, b) ==
    IF r.ok /\ g.ok /\ b.ok THEN <<r.v, g.v, b.v>> ELSE BLACK

\* lines 187-192, h being the string after lstrip('#')
RgbOfDigits(h) ==
    IF Len(h) = HexLen
    THEN Components(PyInt(SubSeq(h, 1, 2), 16), PyInt(SubSeq(h, 3, 4), 16),
                    PyInt(SubSeq(h, 5, 6), 16))
    ELSE BLACK

\* hex_to_rgb(hex_color) for a JSON value; raised stands for the
\* AttributeError of .lstrip on a truthy value that is not a string
hex_to_rgb(hex_color) ==
    IF ~Truthy(hex_color) THEN [raised |-> FALSE, rgb |-> BLACK]
    ELSE IF hex_color.t # "str" THEN [raised |-> TRUE, rgb |-> BLACK]
    ELSE [raised |-> FALSE, rgb |-> RgbOfDigits(LStripSet(hex_color.s, {"#"}))]

-----------------------------------------------------------------------------
(* create_slide_from_ai_data *)

\* int(): truncation toward zero of a / b
Trunc(a, b) == IF a >= 0 THEN a \div b ELSE 0 - ((0 - a) \div b)

Max(a, b) == IF a >= b THEN a ELSE b
Min(a, b) == IF a <= b THEN a ELSE b

\* a JSON number in Python arithmetic and comparisons (bool is an int)
Numeric(v) == v.t \in {"num", "bool"}
NumVal(v) == IF v.t = "bool" THEN (IF v.b THEN 1 ELSE 0) ELSE v.n

IsWord(v, w) == v.t = "word" /\ v.w = w

EmptyDict == [t |-> "dict", x_percent |-> J_absent, y_percent |-> J_absent,
              width_percent |-> J_absent, height_percent |-> J_absent,
              font_size |-> J_absent, font_color |-> J_absent, bold |-> J_absent,
              italic |-> J_absent, alignment |-> J_absent]

BulletGlyphs == {BULLET, "-", "*"}

\* str.replace('pt', '')
RECURSIVE ReplacePt(_)
ReplacePt(s) ==
    IF s = <<>> THEN <<>>
    ELSE IF Len(s) >= 2 /\ s[1] = "p" /\ s[2] = "t"
         THEN ReplacePt(SubSeq(s, 3, Len(s)))
         ELSE <<Head(s)>> \o ReplacePt(Tail(s))

\* lines 313-317: a font size given as a string
ParsedSize(parsed) == IF parsed.ok THEN parsed.v ELSE 18

\* lines 320-330: the floors and ceiling of the element type, then [10, 60]
AdjustedSize(fs, elem_type) ==
    Max(10, Min(60, CASE IsWord(elem_type, "title") -> Max(fs, 32)
                      [] IsWord(elem_type, "subtitle") -> Max(fs, 24)
                      [] IsWord(elem_type, "heading") -> Max(fs, 22)
                      [] IsWord(elem_type, "caption") -> Min(fs, 14)
                      [] OTHER -> fs))

\* lines 312-330: the run's font size; raised is the TypeError of max/min
\* on a value that is neither a number nor a string
SizeOf(given, elem_type) ==
    IF given.t = "str"
    THEN [raised |-> FALSE,
          size |-> AdjustedSize(ParsedSize(PyInt(ReplacePt(given.s), 10)), elem_type)]
    ELSE IF Numeric(given)
    THEN [raised |-> FALSE, size |-> AdjustedSize(NumVal(given), elem_type)]
    ELSE [raised |-> TRUE, size |-> 0]

FontSize(style, elem_type) == SizeOf(Get(style.font_size, J_num(18)), elem_type)

\* lines 248-251: a percentage of the slide's extent, through int()
Scaled(pct, extent) == Trunc(NumVal(pct) * extent, 100)

\* lines 254-257: the minimum dimension of one axis
MinExtent(extent, test, set) == IF extent < test THEN set ELSE extent

\* lines 260-263: a negative start of one axis
ClampStart(start) == IF start < 0 THEN EDGE_MARGIN ELSE start

\* lines 264-267: the far-edge clamp of one axis
ClampExtent(start, extent, limit) ==
    IF start + extent > limit THEN limit - start - EDGE_MARGIN ELSE extent

\* lines 248-267 for one axis: <<start, extent>>
Axis(start_pct, extent_pct, limit, test, set) ==
    <<ClampStart(Scaled(start_pct, limit)),
      ClampExtent(ClampStart(Scaled(start_pct, limit)),
                  MinExtent(Scaled(extent_pct, limit), test, set), limit)>>

BoxOf(h, v) ==
    [raised |-> FALSE, left |-> h[1], top |-> v[1], width |-> h[2], height |-> v[2]]

\* lines 241-267: the text box of an element; raised is the TypeError of
\* dividing a non-number by 100
Box(x, y, w, h, slide_width, slide_height) ==
    IF Numeric(x) /\ Numeric(y) /\ Numeric(w) /\ Numeric(h)
    THEN BoxOf(Axis(x, w, slide_width, MIN_WIDTH_TEST, MIN_WIDTH_SET),
               Axis(y, h, slide_height, MIN_HEIGHT_TEST, MIN_HEIGHT_SET))
    ELSE [raised |-> TRUE, left |-> 0, top |-> 0, width |-> 0, height |-> 0]

BoundingBox(pos, slide_width, slide_height) ==
    Box(Get(pos.x_percent, J_num(5)), Get(pos.y_percent, J_num(5)),
        Get(pos.width_percent, J_num(90)), Get(pos.height_percent, J_num(15)),
        slide_width, slide_height)

EmptyParagraph == [alignment |-> "none", level |-> 0, runs |-> <<>>]

\* lines 285-287: the line's text after the bullet glyph is taken off
ResolveLine(line) ==
    IF line[1] \in BulletGlyphs
    THEN Strip(LStripSet(line, BulletGlyphs \cup {" "}))
    ELSE line

\* lines 280-282: whether the loop body runs for this (stripped) line
KeepLine(line) == line # <<>>

\* lines 295-301
Alignment(alignment) ==
    IF IsWord(alignment, "center") THEN "center"
    ELSE IF IsWord(alignment, "right") THEN "right" ELSE "left"

\* lines 304-305
Level(line, bullet_level, elem_type) ==
    IF NumVal(bullet_level) > 0 \/ line[1] \in BulletGlyphs \/ IsWord(elem_type, "bullet")
    THEN Max(0, (IF Truthy(bullet_level) THEN NumVal(bullet_level) ELSE 1) - 1)
    ELSE 0

\* line 339
Bold(style, elem_type) ==
    \/ Truthy(Get(style.bold, J_bool(FALSE)))
    \/ IsWord(elem_type, "title")
    \/ IsWord(elem_type, "heading")

\* lines 308-343: the paragraph with its run; an exception of the font size
\* or the colour leaves the run with its text alone
Formatted(text, align, level, size, color, bold, italic) ==
    IF size.raised \/ color.raised
    THEN [raised |-> TRUE,
          para |-> [alignment |-> align, level |-> level,
                    runs |-> <<[text |-> text,
                                size |-> IF size.raised THEN 0 ELSE size.size,
                                rgb |-> BLACK, bold |-> FALSE, italic |-> FALSE,
                                name |-> ""]>>]]
    ELSE [raised |-> FALSE,
          para |-> [alignment |-> align, level |-> level,
                    runs |-> <<[text |-> text, size |-> size.size, rgb |-> color.rgb,
                                bold |-> bold, italic |-> italic, name |-> "Arial"]>>]]

\* lines 284-343 for one kept line: the paragraph written; raised is an
\* AttributeError (style is no dict, font_color no string) or TypeError
\* (bullet_level or font_size no number)
ParagraphOf(line, bullet_level, elem_type, style) ==
    IF style.t # "dict" THEN [raised |-> TRUE, para |-> EmptyParagraph]
    ELSE IF ~Numeric(bullet_level)
    THEN [raised |-> TRUE,
          para |-> [alignment |-> Alignment(Get(style.alignment, J_word("left"))),
                    level |-> 0, runs |-> <<>>]]
    ELSE Formatted(ResolveLine(line),
                   Alignment(Get(style.alignment, J_word("left"))),
                   Level(line, bullet_level, elem_type),
                   FontSize(style, elem_type),
                   hex_to_rgb(Get(style.font_color,
                                  J_str(<<"#", "0", "0", "0", "0", "0", "0">>))),
                   Bold(style, elem_type),
                   Truthy(Get(style.italic, J_bool(FALSE))))

Paragraph(line, elem, style) ==
    ParagraphOf(line, Get(elem.bullet_level, J_num(0)),
                Get(elem.type, J_word("body")), style)

\* lines 289-292: line 0 fills the text frame's first paragraph, every later
\* kept line adds one
Placed(acc, i, para) == IF i = 1 THEN <<para>> \o Tail(acc) ELSE Append(acc, para)

\* lines 279-343: the loop over the lines
RECURSIVE Paragraphs(_, _, _, _, _)
ParagraphsStep(lines, i, elem, style, acc, p) ==
    IF p.raised THEN [raised |-> TRUE, paragraphs |-> Placed(acc, i, p.para)]
    ELSE Paragraphs(lines, i + 1, elem, style, Placed(acc, i, p.para))

Paragraphs(lines, i, elem, style, acc) ==
    IF i > Len(lines) THEN [raised |-> FALSE, paragraphs |-> acc]
    ELSE IF ~KeepLine(Strip(lines[i])) THEN Paragraphs(lines, i + 1, elem, style, acc)
    ELSE ParagraphsStep(lines, i, elem, style, acc,
                        Paragraph(Strip(lines[i]), elem, style))

Picture(slide_width, slide_height) ==
    [kind |-> "picture", left |-> 0, top |-> 0, width |-> slide_width,
     height |-> slide_height, paragraphs |-> <<>>]

\* lines 270-343: the text box with its paragraphs
TextBox(box, paras) ==
    IF box.raised THEN [raised |-> TRUE, shapes |-> <<>>]
    ELSE [raised |-> paras.raised,
          shapes |-> <<[kind |-> "textbox", left |-> box.left, top |-> box.top,
                        width |-> box.width, height |-> box.height,
                        paragraphs |-> paras.paragraphs]>>]

\* lines 238-343 for an element whose stripped text is not empty
ElementOf(elem, stripped, pos, style, slide_width, slide_height) ==
    IF pos.t # "dict" THEN [raised |-> TRUE, shapes |-> <<>>]
    ELSE TextBox(BoundingBox(pos, slide_width, slide_height),
                 Paragraphs(SplitNL(stripped, <<>>), 1, elem, style, <<EmptyParagraph>>))

\* lines 234-236
TextOf(elem, text, slide_width, slide_height) ==
    IF text.t # "str" THEN [raised |-> TRUE, shapes |-> <<>>]
    ELSE IF Strip(text.s) = <<>> THEN [raised |-> FALSE, shapes |-> <<>>]
    ELSE ElementOf(elem, Strip(text.s), Get(elem.position, EmptyDict),
                   Get(elem.style, EmptyDict), slide_width, slide_height)

\* lines 233-343 for one element: the shapes it adds (none or one text box);
\* raised is the AttributeError of .get on an element that is no dict or of
\* .strip on a text that is no string, or an exception further down
Element(elem, slide_width, slide_height) ==
    IF elem.t # "dict" THEN [raised |-> TRUE, shapes |-> <<>>]
    ELSE TextOf(elem, Get(elem.text, J_str(<<>>)), slide_width, slide_height)

\* what "for elem in elements" iterates: a list's items, a string's characters
Iterate(elements) ==
    IF elements.t = "list" THEN elements.items
    ELSE [i \in 1..Len(elements.s) |-> J_str(<<elements.s[i]>>)]

RECURSIVE Elements(_, _, _, _, _)
ElementsStep(items, i, slide_width, slide_height, acc, e) ==
    IF e.raised THEN [raised |-> TRUE, shapes |-> acc \o e.shapes]
    ELSE Elements(items, i + 1, slide_width, slide_height, acc \o e.shapes)

Elements(items, i, slide_width, slide_height, acc) ==
    IF i > Len(items) THEN [raised |-> FALSE, shapes |-> acc]
    ELSE ElementsStep(items, i, slide_width, slide_height, acc,
                      Element(items[i], slide_width, slide_height))

NoFill == [solid |-> FALSE, rgb |-> BLACK]

\* lines 202-228: what lies under the text boxes
Background(data, slide_width, slide_height, background_image) ==
    IF background_image
    THEN [raised |-> FALSE, shapes |-> <<Picture(slide_width, slide_height)>>,
          fill |-> NoFill]
    ELSE [raised |-> hex_to_rgb(Get(data.background_color,
                                    J_str(<<"#", "F", "F", "F", "F", "F", "F">>))).raised,
          shapes |-> <<>>,
          fill |-> [solid |-> TRUE,
                    rgb |-> hex_to_rgb(Get(data.background_color,
                                J_str(<<"#", "F", "F", "F", "F", "F", "F">>))).rgb]]

SlideOf(data, slide_width, slide_height, back) ==
    IF back.raised
    THEN [raised |-> TRUE, slide |-> [shapes |-> <<>>, fill |-> NoFill]]
    ELSE [raised |-> Elements(Iterate(Get(data.elements, J_list(<<>>))), 1,
                              slide_width, slide_height, back.shapes).raised,
          slide |-> [shapes |-> Elements(Iterate(Get(data.elements, J_list(<<>>))), 1,
                                         slide_width, slide_height, back.shapes).shapes,
                     fill |-> back.fill]]

\* create_slide_from_ai_data(prs, slide_data, slide_width, slide_height,
\* background_image): the slide appended to prs.slides, and whether an
\* exception left the function before its return
create_slide_from_ai_data(data, slide_width, slide_height, background_image) ==
    SlideOf(data, slide_width, slide_height,
            Background(data, slide_width, slide_height, background_image))

-----------------------------------------------------------------------------
(* analyze_slide_with_gemini *)

\* what one client.models.generate_content call does: it raises (with or
\* without the 429 / RESOURCE_EXHAUSTED signature in the message) or gives a
\* text that json.loads parses to value, or fails to parse
RaiseRateLimit == [kind |-> "raise", rate_limited |-> TRUE, parses |-> FALSE,
                   value |-> J_absent]
RaiseOther == [kind |-> "raise", rate_limited |-> FALSE, parses |-> FALSE,
               value |-> J_absent]
TextInvalid == [kind |-> "text", rate_limited |-> FALSE, parses |-> FALSE,
                value |-> J_absent]
TextValue(v) == [kind |-> "text", rate_limited |-> FALSE, parses |-> TRUE, value |-> v]

\* len() is defined on it
Sized(v) == v.t \in {"list", "str", "dict"}

\* lines 136-176: which handler one iteration of the inner loop ends in.
\* A parsed value that is no object, or whose elements has no len(), raises
\* AttributeError / TypeError at line 159, which "except Exception" catches.
Outcome(resp) ==
    IF resp.kind = "raise"
    THEN (IF resp.rate_limited THEN "rate_limited" ELSE "error")
    ELSE IF ~resp.parses THEN "json_error"
    ELSE IF resp.value.t # "dict" THEN "error"
    ELSE IF ~Sized(Get(resp.value.elements, J_list(<<>>))) THEN "error"
    ELSE "ok"

wait_time_flat(a) == BackoffUnit

\* line 171
wait_time(a) == BackoffUnit * (a + 1)

Returned(m, a) == [done |-> TRUE, model_idx |-> m, attempt |-> a]

\* the outer loop's next iteration; line 178 once the models are used up
NextModel(m, a) ==
    IF m < NumModels
    THEN [done |-> FALSE, model_idx |-> m + 1, attempt |-> 0]
    ELSE Returned(m, a)

\* the inner loop's next iteration; the outer loop's when range() is used up
NextAttempt(m, a) ==
    IF a + 1 < max_retries
    THEN [done |-> FALSE, model_idx |-> m, attempt |-> a + 1]
    ELSE NextModel(m, a)

AfterJsonError_fallback(m, a) == NextModel(m, a)

\* lines 163-165: return None
AfterJsonError(m, a) == Returned(m, a)

\* lines 168-173: sleep, then fall to the end of the loop body
AfterRateLimit(m, a) == NextAttempt(m, a)

AfterError_retry(m, a) == NextAttempt(m, a)

\* lines 174-176: break
AfterError(m, a) == NextModel(m, a)

\* where the loops stand after an iteration that ended in outcome
Position(m, a, outcome) ==
    CASE outcome = "ok" -> Returned(m, a)
      [] outcome = "json_error" -> AfterJsonError(m, a)
      [] outcome = "rate_limited" -> AfterRateLimit(m, a)
      [] outcome = "error" -> AfterError(m, a)

\* the record of one call: attempt is 1-based, wait the seconds slept after
\* it, value what json.loads gave when the call ended in the return of line 161
Call(m, a, outcome, value) ==
    [model |-> m, attempt |-> a + 1, outcome |-> outcome,
     wait |-> IF outcome = "rate_limited" THEN wait_time(a) ELSE 0,
     value |-> IF outcome = "ok" THEN value ELSE J_absent]

-----------------------------------------------------------------------------
(* Inputs of the whole-program specification *)

TitleElement ==
    [t |-> "dict", text |-> J_str(<<"T", "i", "t", "l", "e">>),
     position |-> [t |-> "dict", x_percent |-> J_num(5), y_percent |-> J_num(5),
                   width_percent |-> J_num(90), height_percent |-> J_num(15)],
     style |-> [t |-> "dict", font_size |-> J_num(40), font_color |-> J_absent,
                bold |-> J_absent, italic |-> J_absent, alignment |-> J_absent],
     bullet_level |-> J_absent, type |-> J_word("title")]

BulletElement ==
    [t |-> "dict", text |-> J_str(<<BULLET, " ", "a", NL, "-", " ", "b">>),
     position |-> [t |-> "dict", x_percent |-> J_num(5), y_percent |-> J_num(25),
                   width_percent |-> J_num(90), height_percent |-> J_num(50)],
     style |-> [t |-> "dict", font_size |-> J_num(18), font_color |-> J_absent,
                bold |-> J_absent, italic |-> J_absent, alignment |-> J_absent],
     bullet_level |-> J_num(1), type |-> J_word("body")]

NullTextElement == [TitleElement EXCEPT !.text = J_null]

Content(elements) ==
    [t |-> "dict", background_color |-> J_absent, elements |-> elements]

\* what json.loads may hand back in the whole-program specification
ParsedValues ==
    { Content(J_list(<<TitleElement>>)),
      Content(J_list(<<TitleElement, BulletElement>>)),
      Content(J_list(<<>>)),
      Content(J_absent),
      Content(J_list(<<NullTextElement>>)),
      Content(J_num(5)),
      J_list(<<>>) }

Responses == {RaiseRateLimit, RaiseOther, TextInvalid} \cup {TextValue(v) : v \in ParsedValues}

-----------------------------------------------------------------------------
(* The driver, the image-only path and main *)

SlideWidth == IF wide THEN SLIDE_WIDTH_WIDE ELSE SLIDE_WIDTH_STD

ImageSlide == [shapes |-> <<Picture(SlideWidth, SLIDE_HEIGHT)>>, fill |-> NoFill]

ImageSlides_short(n) == [i \in 1..(n - 1) |-> ImageSlide]

\* lines 472-492: one slide holding one full-bleed picture per page
ImageSlides(n) == [i \in 1..n |-> ImageSlide]

\* line 521
UseAI == GEMINI_AVAILABLE /\ GEMINI_API_KEY

\* lines 351-357: create_pptx_from_pdf_with_ai goes on past its own checks
DriverStarts == GEMINI_AVAILABLE /\ GEMINI_API_KEY

\* line 403
HasElements(data) == data.t = "dict" /\ Truthy(Get(data.elements, J_null))

\* lines 516-518: the input file is missing
MainNoInput ==
    /\ pc = "start"
    /\ ~input_exists
    /\ pc' = "no_input"
    /\ UNCHANGED <<GEMINI_AVAILABLE, GEMINI_API_KEY, input_exists, total_pages, wide,
                   page_num, slides, failed_slides, paced, extract_calls, image_runs,
                   model_idx, attempt, log, slide_data, hex_in, hex_out>>

\* lines 521-522 and 351-389: main enters the AI driver, which opens the
\* document and starts its page loop
MainAI ==
    /\ pc = "start"
    /\ input_exists
    /\ UseAI /\ DriverStarts
    /\ pc' = "page"
    /\ page_num' = 0
    /\ slides' = <<>>
    /\ failed_slides' = <<>>
    /\ UNCHANGED <<GEMINI_AVAILABLE, GEMINI_API_KEY, input_exists, total_pages, wide,
                   paced, extract_calls, image_runs, model_idx, attempt, log,
                   slide_data, hex_in, hex_out>>

\* lines 526-532 and 447-499: main runs the image-only path (also when the
\* driver returned False)
MainImages ==
    /\ pc = "start"
    /\ input_exists
    /\ ~(UseAI /\ DriverStarts)
    /\ image_runs' = image_runs + 1
    /\ slides' = ImageSlides(total_pages)
    /\ pc' = "done"
    /\ UNCHANGED <<GEMINI_AVAILABLE, GEMINI_API_KEY, input_exists, total_pages, wide,
                   page_num, failed_slides, paced, extract_calls, model_idx, attempt,
                   log, slide_data, hex_in, hex_out>>

\* lines 391-401: the page is rendered and analyze_slide_with_gemini entered
BeginPage ==
    /\ pc = "page"
    /\ extract_calls' = extract_calls + 1
    /\ model_idx' = 1
    /\ attempt' = 0
    /\ log' = <<>>
    /\ slide_data' = J_absent
    /\ pc' = "extract"
    /\ UNCHANGED <<GEMINI_AVAILABLE, GEMINI_API_KEY, input_exists, total_pages, wide,
                   page_num, slides, failed_slides, paced, image_runs, hex_in, hex_out>>

\* lines 134-179: one iteration of the retry loop, the API answering resp
ApiCall(resp) ==
    /\ pc = "extract"
    /\ LET outcome == Outcome(resp)
           pos == Position(model_idx, attempt, outcome)
       IN  /\ log' = Append(log, Call(model_idx, attempt, outcome, resp.value))
           /\ model_idx' = pos.model_idx
           /\ attempt' = pos.attempt
           /\ pc' = IF pos.done THEN "build" ELSE "extract"
           /\ slide_data' = IF ~pos.done THEN slide_data
                            ELSE IF outcome = "ok" THEN resp.value
                            ELSE J_null
    /\ UNCHANGED <<GEMINI_AVAILABLE, GEMINI_API_KEY, input_exists, total_pages, wide,
                   page_num, slides, failed_slides, paced, extract_calls, image_runs,
                   hex_in, hex_out>>

\* lines 428-429: time.sleep(10) after every page but the last
AfterPage(sleeps, page, last) ==
    IF last THEN sleeps
    ELSE Append(sleeps, [page |-> page, seconds |-> PacingDelay])

\* lines 403-429: the page's slide is appended (reconstructed, or the image
\* fallback), then the pacing sleep and the next page; an exception of
\* create_slide_from_ai_data leaves the driver and main
BuildSlide ==
    /\ pc = "build"
    /\ LET built == create_slide_from_ai_data(slide_data, SlideWidth, SLIDE_HEIGHT, TRUE)
           last == ~(page_num < total_pages - 1)
       IN  IF HasElements(slide_data)
           THEN /\ slides' = Append(slides, built.slide)
                /\ failed_slides' = failed_slides
                /\ IF built.raised
                   THEN pc' = "aborted" /\ page_num' = page_num /\ paced' = paced
                   ELSE /\ pc' = IF last THEN "done" ELSE "page"
                        /\ page_num' = IF last THEN page_num ELSE page_num + 1
                        /\ paced' = AfterPage(paced, page_num + 1, last)
           ELSE /\ slides' = Append(slides, ImageSlide)
                /\ failed_slides' = Append(failed_slides, page_num + 1)
                /\ pc' = IF last THEN "done" ELSE "page"
                /\ page_num' = IF last THEN page_num ELSE page_num + 1
                /\ paced' = AfterPage(paced, page_num + 1, last)
    /\ UNCHANGED <<GEMINI_AVAILABLE, GEMINI_API_KEY, input_exists, total_pages, wide,
                   extract_calls, image_runs, model_idx, attempt, log, slide_data,
                   hex_in, hex_out>>

NoHex == [done |-> FALSE, raised |-> FALSE, rgb |-> BLACK]

Init ==
    /\ pc = "start"
    /\ GEMINI_AVAILABLE \in BOOLEAN
    /\ GEMINI_API_KEY \in BOOLEAN
    /\ input_exists \in BOOLEAN
    /\ total_pages \in 1..MaxPages
    /\ wide \in BOOLEAN
    /\ page_num = 0
    /\ slides = <<>>
    /\ failed_slides = <<>>
    /\ paced = <<>>
    /\ extract_calls = 0
    /\ image_runs = 0
    /\ model_idx = 1
    /\ attempt = 0
    /\ log = <<>>
    /\ slide_data = J_absent
    /\ hex_in = J_absent
    /\ hex_out = NoHex

Next ==
    \/ MainNoInput
    \/ MainAI
    \/ MainImages
    \/ BeginPage
    \/ \E resp \in Responses : ApiCall(resp)
    \/ BuildSlide

Spec == Init /\ [][Next]_vars

-----------------------------------------------------------------------------
(* create_slide_from_ai_data over a range of extracted contents: the driver *)
(* stands at line 403 of a one-page run with the extractor's result in hand *)

TextAlphabet == {"a", " ", NL, "-", "*", BULLET}
Texts == UNION {[1..n -> TextAlphabet] : n \in 1..MaxTextLen}

\* percentages whose float product and int() agree with exact arithmetic
Percents == {0 - 10, 0, 5, 50, 90, 99, 100, 150}

PositionDict(x, y, w, h) ==
    [t |-> "dict", x_percent |-> x, y_percent |-> y, width_percent |-> w,
     height_percent |-> h]

Style(font_size, font_color, alignment) ==
    [t |-> "dict", font_size |-> font_size, font_color |-> font_color,
     bold |-> J_absent, italic |-> J_absent, alignment |-> alignment]

FontSizes == {J_absent, J_null, J_num(5), J_num(18), J_num(100),
              J_str(<<"2", "4", "p", "t">>), J_str(<<"b", "i", "g">>)}
FontColors == {J_absent, J_null, J_num(5), J_str(<<"#", "F", "F", "0", "0", "0", "0">>),
               J_str(<<"r", "e", "d">>)}
Alignments == {J_absent, J_null, J_word("center"), J_word("right"), J_word("justify")}
Types == {J_absent, J_null, J_word("title"), J_word("subtitle"), J_word("heading"),
          J_word("body"), J_word("bullet"), J_word("caption")}
BulletLevels == {J_absent, J_null, J_num(0), J_num(1), J_num(3), J_str(<<"1">>)}

ElementInputs ==
    {[TitleElement EXCEPT !.text = J_str(txt)] : txt \in Texts}
    \cup {[TitleElement EXCEPT !.text = v] : v \in {J_absent, J_null, J_num(7)}}
    \cup {[TitleElement EXCEPT !.position = PositionDict(J_num(x), J_num(y), J_num(w), J_num(h))] :
            x \in Percents, y \in Percents, w \in Percents, h \in Percents}
    \cup {[TitleElement EXCEPT !.position = v] :
            v \in {J_absent, J_null,
                   PositionDict(J_absent, J_absent, J_absent, J_absent),
                   PositionDict(J_str(<<"5">>), J_num(5), J_num(90), J_num(15)),
                   PositionDict(J_num(5), J_num(5), J_null, J_num(15))}}
    \cup {[TitleElement EXCEPT !.style = Style(fs, fc, al), !.type = ty, !.bullet_level = bl] :
            fs \in FontSizes, fc \in FontColors, al \in Alignments, ty \in Types,
            bl \in BulletLevels}
    \cup {[TitleElement EXCEPT !.style = v] : v \in {J_absent, J_null, J_list(<<>>)}}

SlideInputs ==
    {Content(J_list(<<e>>)) : e \in ElementInputs}
    \cup {Content(J_list(<<TitleElement, e>>)) : e \in {J_num(1), J_null, BulletElement}}
    \cup {Content(J_str(<<"a", "b">>))}

InitSlide ==
    /\ pc = "build"
    /\ GEMINI_AVAILABLE = TRUE
    /\ GEMINI_API_KEY = TRUE
    /\ input_exists = TRUE
    /\ total_pages = 1
    /\ wide \in BOOLEAN
    /\ page_num = 0
    /\ slides = <<>>
    /\ failed_slides = <<>>
    /\ paced = <<>>
    /\ extract_calls = 1
    /\ image_runs = 0
    /\ model_idx = 1
    /\ attempt = 0
    /\ slide_data \in SlideInputs
    /\ log = <<Call(1, 0, "ok", slide_data)>>
    /\ hex_in = J_absent
    /\ hex_out = NoHex

NextSlide == BuildSlide

SpecSlide == InitSlide /\ [][NextSlide]_vars

-----------------------------------------------------------------------------
(* hex_to_rgb over a range of strings *)

HexAlphabet == {"F", "+", "-", "_", " ", "g"}
HexBodies == UNION {[1..n -> HexAlphabet] : n \in 0..MaxBodyLen}
Hashes(k) == [i \in 1..k |-> "#"]

HexInputs ==
    {J_str(Hashes(k) \o body) : k \in 0..MaxHashes, body \in HexBodies} \cup {J_null}

InitHex ==
    /\ pc = "hex"
    /\ GEMINI_AVAILABLE = FALSE
    /\ GEMINI_API_KEY = FALSE
    /\ input_exists = FALSE
    /\ total_pages = 1
    /\ wide = FALSE
    /\ page_num = 0
    /\ slides = <<>>
    /\ failed_slides = <<>>
    /\ paced = <<>>
    /\ extract_calls = 0
    /\ image_runs = 0
    /\ model_idx = 1
    /\ attempt = 0
    /\ log = <<>>
    /\ slide_data = J_absent
    /\ hex_in \in HexInputs
    /\ hex_out = NoHex

\* one call hex_to_rgb(hex_in)
HexToRgb ==
    /\ pc = "hex"
    /\ ~hex_out.done
    /\ hex_out' = [done |-> TRUE, raised |-> hex_to_rgb(hex_in).raised,
                   rgb |-> hex_to_rgb(hex_in).rgb]
    /\ UNCHANGED <<pc, GEMINI_AVAILABLE, GEMINI_API_KEY, input_exists, total_pages,
                   wide, page_num, slides, failed_slides, paced, extract_calls,
                   image_runs, model_idx, attempt, log, slide_data, hex_in>>

NextHex == HexToRgb

SpecHex == InitHex /\ [][NextHex]_vars

-----------------------------------------------------------------------------
(* Properties *)

CallsTo(m) == Cardinality({i \in 1..Len(log) : log[i].model = m})

RECURSIVE WaitedOnUpTo(_, _)
WaitedOnUpTo(m, n) ==
    IF n = 0 THEN 0
    ELSE WaitedOnUpTo(m, n - 1) + (IF log[n].model = m THEN log[n].wait ELSE 0)

\* the seconds slept in the backoff of model m
WaitedOn(m) == WaitedOnUpTo(m, Len(log))

\* the extractor has returned to the driver
ExtractorReturned == pc # "extract" /\ log # <<>>

\* the call after call i goes, or will go, to model m as its attempt k
NextCallIs(i, m, k) ==
    IF i < Len(log)
    THEN log[i + 1].model = m /\ log[i + 1].attempt = k
    ELSE pc = "extract" /\ model_idx = m /\ attempt = k - 1

\* call i was the last one and the extractor returned None after it
ReturnedNoneAfter(i) == i = Len(log) /\ pc # "extract" /\ slide_data = J_null

IsImageOnly(slide) == slide.shapes = <<Picture(SlideWidth, SLIDE_HEIGHT)>>

AiUnavailable == ~GEMINI_AVAILABLE \/ ~GEMINI_API_KEY

\* C1 (as claimed): the AI run never aborts; it appends one slide per page in
\* page order, and the failure list holds exactly the pages whose extraction
\* gave the failure signal or no elements, each with an image-only slide.
C1_RunNeverAborts ==
    /\ pc # "aborted"
    /\ pc = "page" => Len(slides) = page_num
    /\ pc \in {"extract", "build"} => Len(slides) = page_num
    /\ (pc = "done" /\ ~AiUnavailable) => Len(slides) = total_pages
    /\ \A i \in 1..Len(failed_slides) :
          /\ failed_slides[i] \in 1..Len(slides)
          /\ IsImageOnly(slides[failed_slides[i]])
          /\ \A j \in 1..(i - 1) : failed_slides[j] < failed_slides[i]
    /\ (pc \in {"page", "done"} /\ ~AiUnavailable /\ slides # <<>>) =>
          (~HasElements(slide_data) <=>
              (failed_slides # <<>> /\ failed_slides[Len(failed_slides)] = Len(slides)))

\* C2: a response that fails JSON parsing ends the extraction of the page:
\* it is the last API call, on any model, and None is returned.
C2_JsonErrorIsTerminal ==
    \A i \in 1..Len(log) : log[i].outcome = "json_error" => ReturnedNoneAfter(i)

\* C2 witness: a parse failure with retries and fallback models left ended
\* the extraction.
C2_Witness ==
    /\ pc = "build"
    /\ Len(log) = 2
    /\ log[1].outcome = "rate_limited"
    /\ log[2].outcome = "json_error"
    /\ log[2].model = 1

\* C3 (as claimed): after a non-JSON response from the first model the next
\* API call goes to the second model.
C3_AdvancesToSecondModel ==
    \A i \in 1..Len(log) :
        (log[i].model = 1 /\ log[i].outcome = "json_error") => NextCallIs(i, 2, 1)

\* C3 (amended): after a non-JSON response from the first model the extractor
\* returns None at once: the retries left on the first model are not used and
\* no other model is called.
C3_ReturnsWithoutSecondModel ==
    \A i \in 1..Len(log) :
        (log[i].model = 1 /\ log[i].outcome = "json_error") =>
            /\ CallsTo(1) = log[i].attempt
            /\ CallsTo(2) = 0
            /\ CallsTo(3) = 0
            /\ pc # "extract"
            /\ slide_data = J_null

\* C3 witness: the first model's first response was non-JSON and the driver
\* has the failure signal.
C3_Witness ==
    /\ pc = "build"
    /\ log # <<>>
    /\ log[1].model = 1
    /\ log[1].outcome = "json_error"
    /\ slide_data = J_null

\* three attempts at most per model
AtMostThreePerModel == \A m \in 1..NumModels : CallsTo(m) <= 3

\* two rate limits then a success on one model: that result is returned and
\* the backoff spent on the model is 45 s
TwoLimitsThenSuccess ==
    \A i \in 3..Len(log) :
        ( /\ log[i].outcome = "ok" /\ log[i].attempt = 3
          /\ log[i - 1].outcome = "rate_limited" /\ log[i - 1].model = log[i].model
          /\ log[i - 2].outcome = "rate_limited" /\ log[i - 2].model = log[i].model ) =>
            /\ i = Len(log)
            /\ pc # "extract"
            /\ slide_data = log[i].value
            /\ WaitedOn(log[i].model) = 45

\* C4 (as claimed): at most 3 attempts per model; a rate limit on attempt k is
\* followed by a wait of 15*k seconds and a retry of the same model; two rate
\* limits then a success return the success after 45 s of waiting.
C4_RateLimitRetriesSameModel ==
    /\ AtMostThreePerModel
    /\ \A i \in 1..Len(log) :
          log[i].outcome = "rate_limited" =>
              /\ log[i].wait = 15 * log[i].attempt
              /\ NextCallIs(i, log[i].model, log[i].attempt + 1)
    /\ TwoLimitsThenSuccess

\* C4 (amended): as claimed for attempts 1 and 2; after the rate limit of
\* attempt 3 the extractor still waits 45 s and then goes on to the next
\* model, or returns None when the model was the last one.
C4_RateLimitBackoff ==
    /\ AtMostThreePerModel
    /\ \A i \in 1..Len(log) :
          log[i].outcome = "rate_limited" =>
              /\ log[i].wait = 15 * log[i].attempt
              /\ IF log[i].attempt < 3
                 THEN NextCallIs(i, log[i].model, log[i].attempt + 1)
                 ELSE IF log[i].model < NumModels
                      THEN NextCallIs(i, log[i].model + 1, 1)
                      ELSE ReturnedNoneAfter(i)
    /\ TwoLimitsThenSuccess

\* C4 witness: a model was rate-limited twice, answered on its third attempt,
\* and that answer was returned.
C4_Witness ==
    /\ pc = "build"
    /\ Len(log) = 3
    /\ log[1].outcome = "rate_limited"
    /\ log[2].outcome = "rate_limited"
    /\ log[3].outcome = "ok"
    /\ slide_data = log[3].value
    /\ WaitedOn(1) = 45

\* C5: an error without the rate-limit signature is followed by no wait and
\* by the first attempt on the next model (or by None after the last model);
\* models are tried in their fixed order, 3 calls at most on each and 9 in
\* all, the extractor has returned after the third call on the last model,
\* and it returns None when no call gave a parseable response.
C5_ErrorAbandonsModel ==
    /\ \A i \in 1..Len(log) :
          log[i].outcome = "error" =>
              /\ log[i].wait = 0
              /\ IF log[i].model < NumModels
                 THEN NextCallIs(i, log[i].model + 1, 1)
                 ELSE ReturnedNoneAfter(i)
    /\ \A i \in 1..(Len(log) - 1) :
          log[i + 1].model \in {log[i].model, log[i].model + 1}
    /\ log # <<>> => log[1].model = 1
    /\ AtMostThreePerModel
    /\ Len(log) <= 9
    /\ pc = "extract" => model_idx \in 1..NumModels /\ CallsTo(model_idx) = attempt
                         /\ attempt < 3
    /\ (ExtractorReturned /\ \A i \in 1..Len(log) : log[i].outcome # "ok") =>
          slide_data = J_null

\* C5 witness: an error on the first attempt of each model in turn exhausted
\* the fallback list and None was returned.
C5_Witness ==
    /\ pc = "build"
    /\ Len(log) = 3
    /\ \A i \in 1..3 : log[i].outcome = "error" /\ log[i].model = i /\ log[i].attempt = 1
    /\ slide_data = J_null

\* C6 (as claimed): create_slide_from_ai_data raises for no content the
\* extractor can return; the slide is appended and the run completes.
C6_NoErrorRaised ==
    /\ pc # "aborted"
    /\ pc = "done" => Len(slides) = total_pages

\* exactly 6 hexadecimal digits after one leading '#', if any, is removed
SixHexDigits(s) ==
    LET rest == IF s # <<>> /\ s[1] = "#" THEN Tail(s) ELSE s
    IN  Len(rest) = 6 /\ \A i \in 1..6 : rest[i] \in DigitsOf(16)

\* C7 (as claimed): hex_to_rgb gives black for missing or empty input and for
\* every string that is not exactly 6 hex digits after one leading '#'.
C7_MalformedIsBlack ==
    (hex_out.done /\ (hex_in.t # "str" \/ ~SixHexDigits(hex_in.s))) =>
        (~hex_out.raised /\ hex_out.rgb = BLACK)

\* C8: with the AI path unavailable and the input present, extraction is
\* never invoked and the image-only path runs once: one slide per page, each
\* a single full-bleed picture, and an empty failure list.
C8_ImageOnlyPath ==
    (AiUnavailable /\ input_exists) =>
        /\ extract_calls = 0
        /\ pc \in {"start", "done"}
        /\ failed_slides = <<>>
        /\ pc = "start" => image_runs = 0
        /\ pc = "done" =>
              /\ image_runs = 1
              /\ Len(slides) = total_pages
              /\ \A i \in 1..Len(slides) :
                    slides[i].shapes = <<[kind |-> "picture", left |-> 0, top |-> 0,
                                          width |-> SlideWidth, height |-> SLIDE_HEIGHT,
                                          paragraphs |-> <<>>]>>

\* C8 witness: without a key, a run over several pages ended on the
\* image-only path.
C8_Witness ==
    /\ pc = "done"
    /\ input_exists
    /\ GEMINI_AVAILABLE
    /\ ~GEMINI_API_KEY
    /\ total_pages > 1
    /\ Len(slides) = total_pages

\* C9 (as claimed): every text box lies inside the slide.
C9_TextBoxInsideSlide ==
    \A i \in 1..Len(slides) : \A j \in 1..Len(slides[i].shapes) :
        LET box == slides[i].shapes[j]
        IN  box.kind = "textbox" =>
              /\ box.left >= 0
              /\ box.top >= 0
              /\ box.width > 0
              /\ box.height > 0
              /\ box.left + box.width <= SlideWidth
              /\ box.top + box.height <= SLIDE_HEIGHT

\* C10 (as claimed): a line holding only a bullet glyph and whitespace gives
\* no paragraph and no run: every run written has non-empty text.
C10_NoEmptyRun ==
    \A i \in 1..Len(slides) : \A j \in 1..Len(slides[i].shapes) :
        \A k \in 1..Len(slides[i].shapes[j].paragraphs) :
            \A r \in 1..Len(slides[i].shapes[j].paragraphs[k].runs) :
                slides[i].shapes[j].paragraphs[k].runs[r].text # <<>>

-----------------------------------------------------------------------------
(* The driver's pacing between pages *)

\* the sleeps of a run that paced after each of the pages 1..n
PacedAfter(n) == [i \in 1..n |-> [page |-> i, seconds |-> PacingDelay]]

\* create_pptx_from_pdf_with_ai has been entered
InDriver == pc \in {"page", "extract", "build", "done", "aborted"} /\ image_runs = 0

\* the driver has left its page loop, normally or by an exception
DriverEnded == pc \in {"done", "aborted"} /\ image_runs = 0

\* the seconds the extractor waited during the current page
RECURSIVE BackoffTotal(_)
BackoffTotal(calls) ==
    IF calls = <<>> THEN 0 ELSE Head(calls).wait + BackoffTotal(Tail(calls))

\* Pacing of the pages the driver got through: one sleep of 10 s after each
\* page that was followed by another, none after the last, whatever the
\* extractor returned or waited.
PacingOfFinishedPages ==
    InDriver =>
        paced = PacedAfter(IF pc = "done" THEN total_pages - 1 ELSE page_num)

\* Each sleep is taken in the step that appends the page's slide and leads
\* to the next page's extraction, and nowhere else.
PacingOnlyBetweenPages ==
    [][paced' # paced =>
          /\ pc = "build" /\ pc' = "page"
          /\ Len(slides') = Len(slides) + 1
          /\ page_num' = page_num + 1
          /\ paced' = Append(paced, [page |-> page_num + 1, seconds |-> PacingDelay])]_vars

\* A failed page (image fallback) is paced like any other.
PacedAfterFallback ==
    /\ pc = "done" /\ total_pages = MaxPages
    /\ failed_slides = <<1>>
    /\ paced = PacedAfter(MaxPages - 1)
    /\ BackoffTotal(log) > 0

\* C11 (as claimed): in an N-page run of create_pptx_from_pdf_with_ai every
\* page but the last is followed by exactly one 10-second pacing sleep, taken
\* after its slide is appended and before the next extraction, whether the
\* extraction succeeded or fell back; the run makes exactly N-1 such sleeps.
C11_PacingAfterEveryPage ==
    /\ [](DriverEnded => paced = PacedAfter(total_pages - 1))
    /\ [][(pc = "build" /\ page_num < total_pages - 1) =>
            /\ Len(slides') = Len(slides) + 1
            /\ paced' = Append(paced, [page |-> page_num + 1, seconds |-> PacingDelay])
            /\ pc' = "page"]_vars

====
